---- MODULE Spec2Model ----
(***************************************************************************)
(* State-machine model of backtest_spread_strategy                         *)
(* (backtest/backtest_with_alpha_threshold.py) and of                      *)
(* calculate_dv01_metrics (utils/dv01_calc.py).                            *)
(*                                                                         *)
(* Numbers.  The program computes in Python/numpy numbers.  The model      *)
(* computes the same expressions exactly: an amount of money is an integer *)
(* count of 1/1000 yuan held in limbs (TLC integers are 32 bits wide and   *)
(* the amounts are not), a rate is a pair of integers, and a comparison    *)
(* of rates is made by cross-multiplication.  Binary floating-point        *)
(* rounding is not modelled.                                               *)
(***************************************************************************)
EXTENDS Integers, Sequences, FiniteSets, TLC

(***************************************************************************)
(* Bounds of the model.                                                    *)
(***************************************************************************)
\* the longest input (number of rows of df)
MaxDays == 3

(***************************************************************************)
(* Exact arithmetic on numbers wider than a TLC integer.  A number is a    *)
(* tuple of seven limbs, least significant first; limbs Limbs-1 are   *)
(* in 0..Base-1 and the last limb carries the sign (floor convention).     *)
(***************************************************************************)
Base == 1000
Limbs == 1..7

Norm(t) ==
    LET s1 == t[1]
        s2 == t[2] + (s1 \div Base)
        s3 == t[3] + (s2 \div Base)
        s4 == t[4] + (s3 \div Base)
        s5 == t[5] + (s4 \div Base)
        s6 == t[6] + (s5 \div Base)
        s7 == t[7] + (s6 \div Base)
    IN  <<s1 % Base, s2 % Base, s3 % Base, s4 % Base, s5 % Base, s6 % Base, s7>>

BZero == <<0, 0, 0, 0, 0, 0, 0>>

\* an integer as a number
Big(n) == Norm(<<n, 0, 0, 0, 0, 0, 0>>)

BAdd(x, y) == Norm([i \in Limbs |-> x[i] + y[i]])

BNeg(x) == Norm([i \in Limbs |-> 0 - x[i]])

BSub(x, y) == Norm([i \in Limbs |-> x[i] - y[i]])

\* x * k for an integer k with |k| <= 2 000 000
BMulInt(x, k) == Norm([i \in Limbs |-> x[i] * k])

\* -1, 0 or 1
BSign(x) == IF x[7] < 0 THEN -1 ELSE IF x = BZero THEN 0 ELSE 1

BLt(x, y) == BSign(BSub(x, y)) < 0
BLe(x, y) == BSign(BSub(x, y)) <= 0
BGt(x, y) == BLt(y, x)
BGe(x, y) == BLe(y, x)

BAbs(x) == IF BSign(x) < 0 THEN BNeg(x) ELSE x

\* x * Base^k (k limbs up)
BShift(x, k) == [i \in Limbs |-> IF i <= k THEN 0 ELSE x[i - k]]

\* x * y for x, y >= 0 whose product is below Base^7
RECURSIVE BMulFrom(_, _, _)
BMulFrom(x, y, i) ==
    IF i > 7 THEN BZero
    ELSE BAdd(BMulInt(BShift(x, i - 1), y[i]), BMulFrom(x, y, i + 1))

\* x * y
BMul(x, y) ==
    LET p == BMulFrom(BAbs(x), BAbs(y), 1)
    IN  IF BSign(x) * BSign(y) < 0 THEN BNeg(p) ELSE p

\* the integer value of a number known to fit a TLC integer
BInt(x) == x[1] + Base * x[2] + Base * Base * x[3]

\* the largest q in lo..hi with q * y <= x, given lo * y <= x < (hi + 1) * y
RECURSIVE BBisect(_, _, _, _)
BBisect(x, y, lo, hi) ==
    IF lo = hi THEN lo
    ELSE LET mid == lo + ((hi - lo + 1) \div 2)
         IN  IF BLe(BMulInt(y, mid), x) THEN BBisect(x, y, mid, hi)
             ELSE BBisect(x, y, lo, mid - 1)

\* the largest quotient BFloorDiv can return
QMax == 1048575

\* floor(x / y) for y > 0 and |floor(x / y)| <= QMax: math.floor of a quotient
BFloorDiv(x, y) ==
    IF BSign(x) >= 0 THEN BBisect(x, y, 0, QMax)
    ELSE 0 - BBisect(BSub(BAdd(BAbs(x), y), Big(1)), y, 0, QMax)

\* the quotient of x by y > 0 is within QMax
BFits(x, y) == BLt(BAbs(x), BMulInt(y, QMax))

\* the sign of the rate num/den (den /= 0)
RSign(r) == BSign(r.num) * BSign(r.den)

\* num1/den1 < num2/den2, for den1, den2 /= 0
RLt(r1, r2) ==
    LET l == BMul(r1.num, r2.den)
        r == BMul(r2.num, r1.den)
    IN  IF BSign(r1.den) * BSign(r2.den) > 0 THEN BLt(l, r) ELSE BLt(r, l)


Max(a, b) == IF a >= b THEN a ELSE b
Min(a, b) == IF a <= b THEN a ELSE b

\* numpy.rint(num / den) for den > 0: the nearest integer, a tie to the even one
Rint(num, den) ==
    LET q == BFloorDiv(num, den)
        r2 == BMulInt(BSub(num, BMulInt(den, q)), 2)
    IN  IF BLt(r2, den) THEN q
        ELSE IF BGt(r2, den) THEN q + 1
        ELSE IF q % 2 = 0 THEN q ELSE q + 1

(***************************************************************************)
(* Units.  Prices of df are whole yuan; an amount of money is a number of  *)
(* 1/1000 yuan; tick_etf and tick_fut are given in 1/1000 yuan; a rate of  *)
(* the configuration is a pair num/den.                                    *)
(***************************************************************************)
\* a price of df as an amount of money per unit
Milli(p) == p * 1000

\* the futures contract multiplier, written 10000 throughout the function
ContractMultiplier == 10000

\* base_etf_units = 1000
BaseUnits == 1000

\* alpha_etf_units += 100
AlphaStep == 100

\* ctd_dv01 = 0.042, the argument backtest_spread_strategy passes
CtdDv01 == [num |-> 21, den |-> 500]

(***************************************************************************)
(* The state of one call of backtest_spread_strategy.                      *)
(***************************************************************************)
VARIABLES
    cfg,                \* the scalar arguments of the call
    df,                 \* the input rows, in date order
    hedge_ratio_col,    \* df["hedge_ratio"] after the merge
    signal_col,         \* df["_signal_today"]
    pc,                 \* where the call is
    idx,                \* the loop index (rows are numbered from 1)
    base_built, base_etf_units, base_fut_units,
    alpha_etf_units, alpha_fut_units, entry_equity_alpha,
    cash, capital, holding, n_etf, n_fut,
    entry_equity, entry_etf_price, entry_fut_price,
    realized_pnls, records, trade_action,
    metrics

inputVars == <<cfg, df>>
colVars == <<hedge_ratio_col, signal_col>>
bookVars == <<base_built, base_etf_units, base_fut_units,
              alpha_etf_units, alpha_fut_units, entry_equity_alpha>>
acctVars == <<cash, capital, holding, n_etf, n_fut,
              entry_equity, entry_etf_price, entry_fut_price>>
vars == <<cfg, df, hedge_ratio_col, signal_col, pc, idx,
          base_built, base_etf_units, base_fut_units,
          alpha_etf_units, alpha_fut_units, entry_equity_alpha,
          cash, capital, holding, n_etf, n_fut,
          entry_equity, entry_etf_price, entry_fut_price,
          realized_pnls, records, trade_action, metrics>>

\* Python's None, and a float, in a variable that holds either
None == [none |-> TRUE, v |-> BZero]
Some(v) == [none |-> FALSE, v |-> v]

\* a missing value of a column (NaN), and a value
NaN == [isna |-> TRUE, val |-> 0]
Val(v) == [isna |-> FALSE, val |-> v]

(***************************************************************************)
(* calculate_dv01_metrics: the hedge ratio of a day.                       *)
(***************************************************************************)
\* etf_dv01 / fut_dv01 as num/den:
\*   etf_dv01 = close_etf * etf_duration * 0.0001
\*   fut_dv01 = (ctd_dv01 / conversion_factor) * 10000
calculate_dv01_metrics(close_etf, etf_duration, ctd_dv01, conversion_factor) ==
    LET num == BMulInt(BMulInt(BMulInt(Big(close_etf), etf_duration.num),
                               ctd_dv01.den), conversion_factor.num)
        den == BMulInt(BMulInt(BMulInt(BMulInt(Big(etf_duration.den), 10000),
                               ctd_dv01.num), conversion_factor.den), 10000)
    IN  Rint(num, den)

\* a faulty variant of HedgeRatioCol: every row gets the first row's ratio
HedgeRatioColOfFirst(rows, c) ==
    [i \in 1..Len(rows) |->
        calculate_dv01_metrics(rows[1].close_etf, c.etf_duration, CtdDv01,
                               c.conversion_factor)]

\* the column the merge on date adds to df (every date of df is in dv01_df)
HedgeRatioCol(rows, c) ==
    [i \in 1..Len(rows) |->
        calculate_dv01_metrics(rows[i].close_etf, c.etf_duration, CtdDv01,
                               c.conversion_factor)]

(***************************************************************************)
(* The signal: re.search(r"(\d+)d$", pred_col) and Series.shift.           *)
(***************************************************************************)
Digits == {"0", "1", "2", "3", "4", "5", "6", "7", "8", "9"}

DigitVal(ch) ==
    CASE ch = "0" -> 0 [] ch = "1" -> 1 [] ch = "2" -> 2 [] ch = "3" -> 3
      [] ch = "4" -> 4 [] ch = "5" -> 5 [] ch = "6" -> 6 [] ch = "7" -> 7
      [] ch = "8" -> 8 [] ch = "9" -> 9

\* int() of the digits col[i..j]
RECURSIVE IntOf(_, _, _)
IntOf(col, i, j) ==
    IF i > j THEN 0 ELSE IntOf(col, i, j - 1) * 10 + DigitVal(col[j])

\* the first index of the run of digits that ends at j
RECURSIVE RunStart(_, _)
RunStart(col, j) ==
    IF j > 1 /\ col[j - 1] \in Digits THEN RunStart(col, j - 1) ELSE j

\* pred_shift: the digits before a final "d", or 0 when the name has none
PredShift(col) ==
    LET n == Len(col)
    IN  IF n >= 2 /\ col[n] = "d" /\ col[n - 1] \in Digits
        THEN IntOf(col, RunStart(col, n - 1), n - 1)
        ELSE 0

\* a faulty variant of SignalCol: the rows the shift leaves empty keep the last prediction
SignalColFilled(rows, col) ==
    LET k == PredShift(col)
    IN  [i \in 1..Len(rows) |-> Val(rows[Min(i + k, Len(rows))].pred)]

\* df[pred_col].shift(-pred_shift), or the column itself when pred_shift = 0
SignalCol(rows, col) ==
    LET k == PredShift(col)
    IN  [i \in 1..Len(rows) |->
            IF i + k <= Len(rows) THEN Val(rows[i + k].pred) ELSE NaN]

\* signal_today > 0 (False for NaN)
Positive(s) == ~s.isna /\ s.val > 0

\* signal_today < alpha_entry_threshold (False for NaN)
BelowThreshold(s, th) == ~s.isna /\ s.val * th.den < th.num

(***************************************************************************)
(* The expressions of the loop body.                                       *)
(***************************************************************************)
\* cash + units * open_etf - lots * open_fut * 10000
\* (entry_equity_alpha and total_value_now)
CombinedValue(c, units, lots, open_etf, open_fut) ==
    BSub(BAdd(c, BMulInt(Big(units), Milli(open_etf))),
         BMulInt(BMulInt(Big(lots), Milli(open_fut)), ContractMultiplier))

\* cash + units * open_etf + (entry_fut_price - open_fut) * lots * 10000
\* (current_equity_open on the position's own counts, current_equity on the books')
MarkedEquity(c, units, lots, entry_fut, open_etf, open_fut) ==
    BAdd(BAdd(c, BMulInt(Big(units), Milli(open_etf))),
         BMulInt(BMulInt(Big(lots), Milli(entry_fut - open_fut)), ContractMultiplier))

\* "if ... and entry_equity_alpha": neither None nor 0
Truthy(o) == ~o.none /\ o.v # BZero

\* a rate that is 0.0
ZeroRate == [num |-> BZero, den |-> Big(1)]

\* (value - basis) / basis
RateOf(value, basis) == [num |-> BSub(value, basis), den |-> basis]

\* a faulty variant of Realize: the outcome is put first
RealizeFirst(pnls, rate) == <<rate>> \o pnls

\* realized_pnls.append(rate)
Realize(pnls, rate) == Append(pnls, rate)

\* a faulty variant of HitsStopGain: rate > stop_gain
HitsStopGainStrict(rate, stop_gain) ==
    LET l == BMulInt(rate.num, stop_gain.den)
        r == BMulInt(rate.den, stop_gain.num)
    IN  IF BSign(rate.den) > 0 THEN BGt(l, r) ELSE BLt(l, r)

\* rate >= stop_gain
HitsStopGain(rate, stop_gain) ==
    LET l == BMulInt(rate.num, stop_gain.den)
        r == BMulInt(rate.den, stop_gain.num)
    IN  IF BSign(rate.den) > 0 THEN BGe(l, r) ELSE BLe(l, r)

\* rate <= -stop_loss
HitsStopLoss(rate, stop_loss) ==
    LET l == BMulInt(rate.num, stop_loss.den)
        r == BMulInt(rate.den, 0 - stop_loss.num)
    IN  IF BSign(rate.den) > 0 THEN BLe(l, r) ELSE BGe(l, r)

\* rate >= stop_gain or rate <= -stop_loss
StopHit(rate, c) ==
    HitsStopGain(rate, c.stop_gain) \/ HitsStopLoss(rate, c.stop_loss)

\* total_required * margin_rate.den, for margin_rate = num/den:
\*   margin_required = n_fut * margin_rate * open_fut * 10000
\*   etf_cost = n_etf * open_etf
TotalRequired(ne, nf, open_etf, open_fut, margin_rate) ==
    BAdd(BMulInt(BMulInt(BMulInt(Big(nf), margin_rate.num), Milli(open_fut)),
                 ContractMultiplier),
         BMulInt(BMulInt(Big(ne), margin_rate.den), Milli(open_etf)))

\* available_funds * margin_rate.den * 10, for available_funds = capital * 0.90
AvailableFunds(cap, margin_rate) == BMulInt(cap, 9 * margin_rate.den)

\* total_required > available_funds
Exceeds(total, avail) == BGt(BMulInt(total, 10), avail)

\* the share and lot counts the entry branch leaves in n_etf and n_fut,
\* for open_etf > 0 and hedge_ratio > 0
Sizing(cap, open_etf, open_fut, hedge_ratio, margin_rate) ==
    LET avail == AvailableFunds(cap, margin_rate)
        max_etf == BFloorDiv(BMulInt(cap, 9), Big(10 * Milli(open_etf)))
        n_fut1 == Max(1, max_etf * hedge_ratio)
        n_etf1 == n_fut1 \div hedge_ratio
        total1 == TotalRequired(n_etf1, n_fut1, open_etf, open_fut, margin_rate)
        \* floor(n_etf * scale), scale = available_funds / total_required
        n_etf2 == BFloorDiv(BMulInt(avail, n_etf1), BMulInt(total1, 10))
        n_fut2 == Max(1, n_etf2 * hedge_ratio)
        total2 == TotalRequired(n_etf2, n_fut2, open_etf, open_fut, margin_rate)
    IN  IF Exceeds(total1, avail) /\ BSign(total1) > 0
        THEN IF Exceeds(total2, avail)
             THEN [n_etf |-> 0, n_fut |-> 0]
             ELSE [n_etf |-> n_etf2, n_fut |-> n_fut2]
        ELSE [n_etf |-> n_etf1, n_fut |-> n_fut1]

\* a faulty variant of EntryDebit: the futures slippage is not charged
EntryDebitNoFutSlip(ne, nf, open_etf, c) ==
    BAdd(BMulInt(Big(ne), Milli(open_etf)), BMulInt(Big(ne), c.tick_etf * 3))

\* etf_cost + slip_etf_cost + slip_fut_cost
EntryDebit(ne, nf, open_etf, c) ==
    BAdd(BAdd(BMulInt(Big(ne), Milli(open_etf)),
              BMulInt(Big(ne), c.tick_etf * 3)),
         BMulInt(BMulInt(Big(nf), c.tick_fut), ContractMultiplier))

\* initial_capital as an amount of money
InitialCapital(c) ==
    BAdd(BMulInt(Big(c.initial_capital.yuan), 1000), Big(c.initial_capital.milli))

(***************************************************************************)
(* The state at the start of the call.                                     *)
(***************************************************************************)
NoMetrics ==
    [annual_return |-> "none",
     max_drawdown |-> [kind |-> "none", rate |-> ZeroRate],
     win_rate |-> [isna |-> TRUE, wins |-> 0, total |-> 0],
     total_trades |-> 0]

InitWith(Cfgs, Inputs) ==
    /\ cfg \in Cfgs
    /\ df \in Inputs
    /\ hedge_ratio_col = <<>>
    /\ signal_col = <<>>
    /\ pc = "prepare"
    /\ idx = 0
    /\ base_built = FALSE
    /\ base_etf_units = 0
    /\ base_fut_units = 0
    /\ alpha_etf_units = 0
    /\ alpha_fut_units = 0
    /\ entry_equity_alpha = None
    /\ cash = InitialCapital(cfg)
    /\ capital = InitialCapital(cfg)
    /\ holding = FALSE
    /\ n_etf = 0
    /\ n_fut = 0
    /\ entry_equity = BZero
    /\ entry_etf_price = 0
    /\ entry_fut_price = 0
    /\ realized_pnls = <<>>
    /\ records = <<>>
    /\ trade_action = 0
    /\ metrics = NoMetrics

(***************************************************************************)
(* Steps 1 and 2: the hedge ratio column and the signal column.            *)
(***************************************************************************)
Prepare ==
    /\ pc = "prepare"
    /\ hedge_ratio_col' = HedgeRatioCol(df, cfg)
    /\ signal_col' = SignalCol(df, cfg.pred_col)
    /\ idx' = 1
    /\ pc' = IF Len(df) = 0 THEN "metrics" ELSE "books"
    /\ UNCHANGED <<inputVars, bookVars, acctVars, realized_pnls, records,
                   trade_action, metrics>>

(***************************************************************************)
(* Step 4 of a day, first part: the base book and the alpha book.          *)
(***************************************************************************)
\* a faulty variant of BuildsBase: the hedge ratio is not looked at
BuildsBaseAnyHedge(built, sig, hedge_ratio, open_etf) ==
    ~built /\ Positive(sig) /\ open_etf > 0

\* a faulty variant of BuildsBase: a built book is built again
BuildsBaseAgain(built, sig, hedge_ratio, open_etf) ==
    Positive(sig) /\ hedge_ratio > 0 /\ open_etf > 0

\* "if not base_built and signal_today > 0 and hedge_ratio > 0 and open_etf > 0"
BuildsBase(built, sig, hedge_ratio, open_etf) ==
    ~built /\ Positive(sig) /\ hedge_ratio > 0 /\ open_etf > 0

\* a faulty variant of IncrementsAlpha: the cap is tested with <=
IncrementsAlphaAtCap(sig, hedge_ratio, alpha_units, base_units, c) ==
    /\ BelowThreshold(sig, c.alpha_entry_threshold)
    /\ hedge_ratio > 0
    /\ alpha_units <= 2 * base_units

\* "if signal_today < alpha_entry_threshold and hedge_ratio > 0:
\*      if alpha_etf_units < 2 * base_etf_units"
IncrementsAlpha(sig, hedge_ratio, alpha_units, base_units, c) ==
    /\ BelowThreshold(sig, c.alpha_entry_threshold)
    /\ hedge_ratio > 0
    /\ alpha_units < 2 * base_units

\* a faulty variant of Books: an alpha increment is paid for from cash
BooksPayForAlpha ==
    /\ pc = "books"
    /\ LET row == df[idx]
           hedge_ratio == hedge_ratio_col[idx]
           signal_today == signal_col[idx]
           build == BuildsBase(base_built, signal_today, hedge_ratio, row.open_etf)
           beu == IF build THEN BaseUnits ELSE base_etf_units
           bfu == IF build THEN BaseUnits * hedge_ratio ELSE base_fut_units
           inc == IncrementsAlpha(signal_today, hedge_ratio, alpha_etf_units, beu, cfg)
           aeu == IF inc THEN alpha_etf_units + AlphaStep ELSE alpha_etf_units
           afu == IF inc THEN alpha_fut_units + AlphaStep * hedge_ratio
                  ELSE alpha_fut_units
           paid == IF inc THEN BSub(cash, BMulInt(Big(AlphaStep), Milli(row.open_etf)))
                   ELSE cash
           now == CombinedValue(paid, beu + aeu, bfu + afu, row.open_etf, row.open_fut)
           eea == IF inc THEN Some(now) ELSE entry_equity_alpha
           alpha_pnl_rate == RateOf(now, eea.v)
           close == aeu > 0 /\ Truthy(eea) /\ StopHit(alpha_pnl_rate, cfg)
       IN  /\ base_built' = (base_built \/ build)
           /\ base_etf_units' = beu
           /\ base_fut_units' = bfu
           /\ alpha_etf_units' = IF close THEN 0 ELSE aeu
           /\ alpha_fut_units' = IF close THEN 0 ELSE afu
           /\ entry_equity_alpha' = IF close THEN None ELSE eea
           /\ realized_pnls' = IF close THEN Realize(realized_pnls, alpha_pnl_rate)
                               ELSE realized_pnls
           /\ cash' = paid
    /\ pc' = "exit"
    /\ UNCHANGED <<inputVars, colVars, idx, capital, holding, n_etf, n_fut,
                   entry_equity, entry_etf_price, entry_fut_price, records,
                   trade_action, metrics>>

Books ==
    /\ pc = "books"
    /\ LET row == df[idx]
           hedge_ratio == hedge_ratio_col[idx]
           signal_today == signal_col[idx]
           build == BuildsBase(base_built, signal_today, hedge_ratio, row.open_etf)
           beu == IF build THEN BaseUnits ELSE base_etf_units
           bfu == IF build THEN BaseUnits * hedge_ratio ELSE base_fut_units
           inc == IncrementsAlpha(signal_today, hedge_ratio, alpha_etf_units, beu, cfg)
           aeu == IF inc THEN alpha_etf_units + AlphaStep ELSE alpha_etf_units
           afu == IF inc THEN alpha_fut_units + AlphaStep * hedge_ratio
                  ELSE alpha_fut_units
           now == CombinedValue(cash, beu + aeu, bfu + afu, row.open_etf, row.open_fut)
           eea == IF inc THEN Some(now) ELSE entry_equity_alpha
           alpha_pnl_rate == RateOf(now, eea.v)
           close == aeu > 0 /\ Truthy(eea) /\ StopHit(alpha_pnl_rate, cfg)
       IN  /\ base_built' = (base_built \/ build)
           /\ base_etf_units' = beu
           /\ base_fut_units' = bfu
           /\ alpha_etf_units' = IF close THEN 0 ELSE aeu
           /\ alpha_fut_units' = IF close THEN 0 ELSE afu
           /\ entry_equity_alpha' = IF close THEN None ELSE eea
           /\ realized_pnls' = IF close THEN Realize(realized_pnls, alpha_pnl_rate)
                               ELSE realized_pnls
    /\ pc' = "exit"
    /\ UNCHANGED <<inputVars, colVars, idx, acctVars, records, trade_action, metrics>>

(***************************************************************************)
(* Step 4.1: the exit check of the primary position.                       *)
(***************************************************************************)
\* a faulty variant of ClosesPrimary: a signal that is no longer positive does not close
ClosesPrimaryOnStop(pnl_rate, sig, c) == StopHit(pnl_rate, c)

\* "pnl_rate >= stop_gain or pnl_rate <= -stop_loss or not (signal_today > 0)"
ClosesPrimary(pnl_rate, sig, c) == StopHit(pnl_rate, c) \/ ~Positive(sig)

\* a faulty variant of ExitCheck: a close does not update capital
ExitCheckStaleCapital ==
    /\ pc = "exit"
    /\ LET row == df[idx]
           current_equity_open ==
               MarkedEquity(cash, n_etf, n_fut, entry_fut_price,
                            row.open_etf, row.open_fut)
           pnl_rate == IF entry_equity # BZero
                       THEN RateOf(current_equity_open, entry_equity)
                       ELSE ZeroRate
           close == holding /\ ClosesPrimary(pnl_rate, signal_col[idx], cfg)
       IN  IF close
           THEN /\ cash' = current_equity_open
                /\ realized_pnls' = Realize(realized_pnls, pnl_rate)
                /\ holding' = FALSE
                /\ n_etf' = 0
                /\ n_fut' = 0
                /\ trade_action' = -1
                /\ capital' = capital
           ELSE /\ trade_action' = 0
                /\ UNCHANGED <<cash, realized_pnls, holding, n_etf, n_fut, capital>>
    /\ pc' = "entry"
    /\ UNCHANGED <<inputVars, colVars, idx, bookVars, entry_equity,
                   entry_etf_price, entry_fut_price, records, metrics>>

ExitCheck ==
    /\ pc = "exit"
    /\ LET row == df[idx]
           signal_today == signal_col[idx]
           current_equity_open ==
               MarkedEquity(cash, n_etf, n_fut, entry_fut_price,
                            row.open_etf, row.open_fut)
           pnl_rate == IF entry_equity # BZero
                       THEN RateOf(current_equity_open, entry_equity)
                       ELSE ZeroRate
           close == holding /\ ClosesPrimary(pnl_rate, signal_today, cfg)
       IN  IF close
           THEN /\ cash' = current_equity_open
                /\ realized_pnls' = Realize(realized_pnls, pnl_rate)
                /\ holding' = FALSE
                /\ n_etf' = 0
                /\ n_fut' = 0
                /\ trade_action' = -1
                /\ capital' = current_equity_open
           ELSE /\ trade_action' = 0
                /\ UNCHANGED <<cash, realized_pnls, holding, n_etf, n_fut, capital>>
    /\ pc' = "entry"
    /\ UNCHANGED <<inputVars, colVars, idx, bookVars, entry_equity,
                   entry_etf_price, entry_fut_price, records, metrics>>

(***************************************************************************)
(* Step 4.2: the entry check of the primary position.                      *)
(***************************************************************************)
\* a faulty variant of TriesEntry: the signal is not looked at
TriesEntryAnySignal(held, sig) == ~held

\* "if not holding and (signal_today is not None and signal_today > 0)"
TriesEntry(held, sig) == ~held /\ Positive(sig)

\* "if open_etf <= 0 or hedge_ratio <= 0: pass"
SkipsEntry(open_etf, hedge_ratio) == open_etf <= 0 \/ hedge_ratio <= 0

EntryCheck ==
    /\ pc = "entry"
    /\ LET row == df[idx]
           hedge_ratio == hedge_ratio_col[idx]
           signal_today == signal_col[idx]
       IN  IF TriesEntry(holding, signal_today)
              /\ ~SkipsEntry(row.open_etf, hedge_ratio)
           THEN LET size == Sizing(capital, row.open_etf, row.open_fut,
                                   hedge_ratio, cfg.margin_rate)
                    debit == EntryDebit(size.n_etf, size.n_fut, row.open_etf, cfg)
                    equity == BAdd(BSub(cash, debit),
                                   BMulInt(Big(size.n_etf), Milli(row.open_etf)))
                IN  /\ n_etf' = size.n_etf
                    /\ n_fut' = size.n_fut
                    /\ IF size.n_etf > 0 /\ size.n_fut > 0
                       THEN /\ cash' = BSub(cash, debit)
                            /\ holding' = TRUE
                            /\ trade_action' = 1
                            /\ entry_equity' = equity
                            /\ entry_etf_price' = row.open_etf
                            /\ entry_fut_price' = row.open_fut
                            /\ capital' = equity
                       ELSE UNCHANGED <<cash, holding, trade_action, entry_equity,
                                        entry_etf_price, entry_fut_price, capital>>
           ELSE UNCHANGED <<acctVars, trade_action>>
    /\ pc' = "record"
    /\ UNCHANGED <<inputVars, colVars, idx, bookVars, realized_pnls, records, metrics>>

(***************************************************************************)
(* Step 4.3: the day's record.                                             *)
(***************************************************************************)
\* a faulty variant of Record: a held day is marked on the primary position's
\* own share and lot counts
RecordOwnCounts ==
    /\ pc = "record"
    /\ LET row == df[idx]
           current_equity ==
               IF holding
               THEN MarkedEquity(cash, n_etf, n_fut, entry_fut_price,
                                 row.open_etf, row.open_fut)
               ELSE cash
       IN  records' = Append(records,
               [date |-> idx,
                position |-> IF holding THEN 1 ELSE 0,
                trade |-> trade_action,
                equity |-> current_equity,
                cum_return |-> RateOf(current_equity, InitialCapital(cfg))])
    /\ IF idx < Len(df)
       THEN idx' = idx + 1 /\ pc' = "books"
       ELSE idx' = idx /\ pc' = "metrics"
    /\ UNCHANGED <<inputVars, colVars, bookVars, acctVars, realized_pnls,
                   trade_action, metrics>>

Record ==
    /\ pc = "record"
    /\ LET row == df[idx]
           current_equity ==
               IF holding
               THEN MarkedEquity(cash, base_etf_units + alpha_etf_units,
                                 base_fut_units + alpha_fut_units,
                                 entry_fut_price, row.open_etf, row.open_fut)
               ELSE cash
       IN  records' = Append(records,
               [date |-> idx,
                position |-> IF holding THEN 1 ELSE 0,
                trade |-> trade_action,
                equity |-> current_equity,
                cum_return |-> RateOf(current_equity, InitialCapital(cfg))])
    /\ IF idx < Len(df)
       THEN idx' = idx + 1 /\ pc' = "books"
       ELSE idx' = idx /\ pc' = "metrics"
    /\ UNCHANGED <<inputVars, colVars, bookVars, acctVars, realized_pnls,
                   trade_action, metrics>>

(***************************************************************************)
(* Steps 5 and 6: the result table and the metrics.  sharpe_ratio and      *)
(* calmar_ratio are not modelled.                                          *)
(***************************************************************************)
\* trading days of a year, the numerator of the exponent of annual_return
TradingDays == 252

SignName(sg) == IF sg > 0 THEN "positive" ELSE IF sg < 0 THEN "negative" ELSE "zero"

\* the sign of (1 + total_return) ** (252 / trade_days) - 1, where
\* 1 + total_return = final_equity / initial_capital and initial_capital > 0;
\* "nan" for a negative base under an exponent that is not a whole number
AnnualReturn(final_equity, initial_capital, trade_days) ==
    IF trade_days = 0 THEN "zero"
    ELSE IF BSign(final_equity) > 0
         THEN SignName(BSign(BSub(final_equity, initial_capital)))
    ELSE IF BSign(final_equity) = 0 THEN "negative"
    ELSE IF TradingDays % trade_days # 0 THEN "nan"
    ELSE IF (TradingDays \div trade_days) % 2 = 0
         THEN SignName(BSign(BSub(BAbs(final_equity), initial_capital)))
    ELSE "negative"

\* equity.cummax() at row i
RECURSIVE CumMax(_, _)
CumMax(recs, i) ==
    IF i = 1 THEN recs[1].equity
    ELSE LET m == CumMax(recs, i - 1)
         IN  IF BGt(recs[i].equity, m) THEN recs[i].equity ELSE m

\* drawdown at row i: equity / cumulative_max - 1
Drawdown(recs, i) ==
    LET e == recs[i].equity
        m == CumMax(recs, i)
    IN  IF m # BZero THEN [kind |-> "rate", rate |-> RateOf(e, m)]
        ELSE IF e = BZero THEN [kind |-> "nan", rate |-> ZeroRate]
        ELSE [kind |-> "-inf", rate |-> ZeroRate]

\* the smaller of two drawdowns, NaN skipped
MinDrawdown(a, b) ==
    IF a.kind = "nan" THEN b
    ELSE IF b.kind = "nan" THEN a
    ELSE IF a.kind = "-inf" THEN a
    ELSE IF b.kind = "-inf" THEN b
    ELSE IF RLt(b.rate, a.rate) THEN b ELSE a

\* drawdown.min() over rows 1..i
RECURSIVE DrawdownMin(_, _)
DrawdownMin(recs, i) ==
    IF i = 1 THEN Drawdown(recs, 1)
    ELSE MinDrawdown(DrawdownMin(recs, i - 1), Drawdown(recs, i))

\* abs(drawdown.min()) if not drawdown.empty else 0.0; a "rate" stands for
\* the absolute value of its rate, "-inf" for infinity
MaxDrawdown(recs) ==
    IF Len(recs) = 0 THEN [kind |-> "rate", rate |-> ZeroRate]
    ELSE DrawdownMin(recs, Len(recs))

\* sum(1 for pnl in realized_pnls if pnl > 0)
WinTrades(pnls) == Cardinality({i \in 1..Len(pnls) : RSign(pnls[i]) > 0})

\* a faulty variant of WinRate: 0.0 rather than nan when there is no trade
WinRateZero(pnls) ==
    [isna |-> FALSE, wins |-> WinTrades(pnls), total |-> Len(pnls)]

\* win_trades / total_trades if total_trades > 0 else nan
WinRate(pnls) ==
    IF Len(pnls) > 0
    THEN [isna |-> FALSE, wins |-> WinTrades(pnls), total |-> Len(pnls)]
    ELSE [isna |-> TRUE, wins |-> 0, total |-> 0]

\* pd.DataFrame(records) of an empty list has no column: result_df["equity"]
\* raises KeyError
EquityColumnMissing(recs) == Len(recs) = 0

Metrics ==
    /\ pc = "metrics"
    /\ IF EquityColumnMissing(records)
       THEN /\ pc' = "error"
            /\ metrics' = metrics
       ELSE /\ pc' = "done"
            /\ metrics' =
                 [annual_return |->
                      AnnualReturn(records[Len(records)].equity,
                                   InitialCapital(cfg), Len(records)),
                  max_drawdown |-> MaxDrawdown(records),
                  win_rate |-> WinRate(realized_pnls),
                  total_trades |-> Len(realized_pnls)]
    /\ UNCHANGED <<inputVars, colVars, idx, bookVars, acctVars, realized_pnls,
                   records, trade_action>>

Next == Prepare \/ Books \/ ExitCheck \/ EntryCheck \/ Record \/ Metrics

(***************************************************************************)
(* Configurations and inputs.                                              *)
(***************************************************************************)
\* the defaults of the signature, with the prediction column left open
Defaults(pred_col) ==
    [initial_capital |-> [yuan |-> 10000000, milli |-> 0],
     margin_rate |-> [num |-> 1, den |-> 10],
     tick_etf |-> 1,
     tick_fut |-> 5,
     etf_duration |-> [num |-> 15, den |-> 2],
     conversion_factor |-> [num |-> 37, den |-> 40],
     stop_gain |-> [num |-> 1, den |-> 200],
     stop_loss |-> [num |-> 1, den |-> 200],
     alpha_entry_threshold |-> [num |-> -3, den |-> 10],
     pred_col |-> pred_col]

Half == [num |-> 1, den |-> 2]

\* stop_gain = stop_loss = 0.5
WideStops(pred_col) ==
    [Defaults(pred_col) EXCEPT !.stop_gain = Half, !.stop_loss = Half]

\* stop_gain = stop_loss = 0.5 and initial_capital = 960400.012, from which an
\* entry at 100/100 under hedge ratio 2 takes 4 shares and 8 lots and leaves
\* an entry equity of 960000
RoundEntry(pred_col) ==
    [WideStops(pred_col) EXCEPT !.initial_capital = [yuan |-> 960400, milli |-> 12]]

\* prediction column names: "pred" (no horizon), "p_1d" (a horizon of 1 day)
\* and "1d_p" (digits and a "d" that do not end the name: no horizon)
ColPlain == <<"p", "r", "e", "d">>
Col1d == <<"p", "_", "1", "d">>
ColInner == <<"1", "d", "_", "p">>

Rows(preds, closes_etf, opens_etf, opens_fut) ==
    [pred : preds, close_etf : closes_etf, close_fut : {100},
     open_etf : opens_etf, open_fut : opens_fut]

\* every input of at most n rows drawn from R
InputsUpTo(n, R) == UNION {[1..k -> R] : k \in 0..n}

\* every input of at most n rows: the first f drawn from R, the others r
InputsTailed(n, f, R, r) ==
    UNION {{[i \in 1..k |-> IF i <= f THEN h[i] ELSE r] : h \in [1..Min(k, f) -> R]}
           : k \in 0..n}

\* The inputs of Spec.  close_etf 1210811 has hedge ratio 2 under the default
\* etf_duration and conversion_factor, close_etf 100 has hedge ratio 0.
Init ==
    InitWith({WideStops(ColPlain), RoundEntry(Col1d), Defaults(ColInner)},
             InputsUpTo(MaxDays, Rows({-1, 1}, {100, 1210811}, {100}, {94, 100})))

Spec == Init /\ [][Next]_vars

\* The inputs of SpecPrices: prices and hedge ratios that are not positive.
MaxPriceDays == 2

InitPrices ==
    InitWith({WideStops(ColPlain)},
             InputsUpTo(MaxPriceDays,
                        Rows({-1, 1}, {-1210811, 100, 1210811}, {0, 100}, {0, 100})))

SpecPrices == InitPrices /\ [][Next]_vars

\* The inputs of SpecHedge: hedge ratios 2, 0 and -2 at constant open prices.
MaxHedgeDays == 3

InitHedge ==
    InitWith({WideStops(ColPlain)},
             InputsUpTo(MaxHedgeDays,
                        Rows({-1, 1}, {-1210811, 100, 1210811}, {100}, {100})))

SpecHedge == InitHedge /\ [][Next]_vars

\* The inputs of SpecBase: hedge ratios 1 and 2 (close_etf 605405 has hedge
\* ratio 1), and days that fail one condition of the base-book build each.
MaxBaseDays == 3

InitBase ==
    InitWith({WideStops(ColPlain)},
             InputsUpTo(MaxBaseDays,
                        Rows({-1, 1}, {605405, 1210811}, {100}, {100})
                          \cup Rows({1}, {100}, {100}, {100})
                          \cup Rows({1}, {1210811}, {0}, {100})))

SpecBase == InitBase /\ [][Next]_vars

\* rows with a signal of 1 and open prices of 100, over closing prices
RowsClosing(closes_etf, closes_fut) ==
    {[pred |-> 1, close_etf |-> ce, close_fut |-> cf, open_etf |-> 100,
      open_fut |-> 100] : ce \in closes_etf, cf \in closes_fut}

\* The inputs of SpecDv01: ETF closes of hedge ratio -2, 0, 1 and 2, each
\* beside two futures closes.
MaxDv01Days == 3

InitDv01 ==
    InitWith({Defaults(ColPlain)},
             InputsUpTo(MaxDv01Days,
                        RowsClosing({-1210811, 100, 605405, 1210811}, {99, 100})))

SpecDv01 == InitDv01 /\ [][Next]_vars

\* WideStops with another initial_capital, in whole yuan
WithCapital(yuan) ==
    [WideStops(ColPlain) EXCEPT !.initial_capital = [yuan |-> yuan, milli |-> 0]]

\* The inputs of SpecSizing: capitals that fund less than one futures lot
\* (100000), one lot and no ETF share at hedge ratio 2 (200000) and a full
\* entry (1000000); futures opens that double, and one that is negative.
MaxSizingDays == 3

InitSizing ==
    InitWith({WithCapital(100000), WithCapital(200000), WithCapital(1000000)},
             InputsUpTo(MaxSizingDays,
                        Rows({1}, {605405, 1210811}, {100}, {-1, 100, 200})))

SpecSizing == InitSizing /\ [][Next]_vars

\* The inputs of SpecMark: open prices that move by one yuan, which stops of
\* 0.5 do not close.
MaxMarkDays == 3

InitMark ==
    InitWith({WideStops(ColPlain)},
             InputsUpTo(MaxMarkDays,
                        Rows({-1, 1}, {1210811}, {100, 101}, {99, 100})))

SpecMark == InitMark /\ [][Next]_vars

\* The inputs of SpecAlpha: long enough for the alpha book to reach its cap;
\* the rows after the first FreeDays are one row with a signal below the
\* threshold.
MaxAlphaDays == 22
FreeDays == 2

InitAlpha ==
    InitWith({Defaults(ColPlain)},
             InputsTailed(MaxAlphaDays, FreeDays,
                          Rows({-1, 1}, {1210811}, {100}, {94, 100}),
                          [pred |-> -1, close_etf |-> 1210811, close_fut |-> 100,
                           open_etf |-> 100, open_fut |-> 100]))

SpecAlpha == InitAlpha /\ [][Next]_vars

(***************************************************************************)
(* Properties.                                                             *)
(***************************************************************************)
\* the position flag of the record before record i (flat before the first)
PrevPosition(i) == IF i = 1 THEN 0 ELSE records[i - 1].position

\* s is an initial part of t
IsPrefix(s, t) ==
    Len(s) <= Len(t) /\ \A i \in 1..Len(s) : s[i] = t[i]

\* C1: in the ledger every position flag is 0 or 1 and every trade flag is
\* -1, 0 or 1; a record with trade flag 1 has position flag 1 and follows a
\* record with position flag 0 (or the flat start); a record with trade flag
\* -1 has position flag 0 and follows a record with position flag 1.
C1_TradeFlagMatchesTransition ==
    \A i \in 1..Len(records) :
        /\ records[i].position \in {0, 1}
        /\ records[i].trade \in {-1, 0, 1}
        /\ records[i].trade = 1 =>
               records[i].position = 1 /\ PrevPosition(i) = 0
        /\ records[i].trade = -1 =>
               records[i].position = 0 /\ PrevPosition(i) = 1

\* C2: the alpha book never holds more than twice the base book's ETF units:
\* nothing while the base book is unbuilt, at most 2000 once its 1000 units
\* are built.
C2_AlphaWithinTwiceBase ==
    /\ alpha_etf_units <= 2 * base_etf_units
    /\ ~base_built => alpha_etf_units = 0
    /\ base_built => base_etf_units = 1000 /\ alpha_etf_units <= 2000

\* C2 witness: day 22 of a run whose days 2..22 all asked for an increment
\* (21 requests, 20 of them granted) stands at the cap.
C2_CapRefusesIncrement ==
    /\ pc = "exit"
    /\ idx = 22
    /\ alpha_etf_units = 2000
    /\ base_etf_units = 1000
    /\ \A i \in 2..22 :
           /\ BelowThreshold(signal_col[i], cfg.alpha_entry_threshold)
           /\ hedge_ratio_col[i] > 0

\* the full closes a step makes
PrimaryCloses == IF holding /\ ~holding' THEN 1 ELSE 0
AlphaCloses == IF alpha_etf_units > 0 /\ alpha_etf_units' = 0 THEN 1 ELSE 0

\* C3: realized_pnls only grows at its end, by one outcome for each full
\* close of the primary position and of the alpha book and by nothing else,
\* and total_trades is its final length.
C3_RealizedAppendOnly ==
    /\ [][/\ IsPrefix(realized_pnls, realized_pnls')
          /\ Len(realized_pnls') = Len(realized_pnls) + PrimaryCloses + AlphaCloses]_vars
    /\ [](pc = "done" => metrics.total_trades = Len(realized_pnls))

\* primary closes the ledger shows: a trade flag -1, or a trade flag 1 on a
\* day that began held
LedgerPrimaryCloses ==
    Cardinality({i \in 1..Len(records) :
                    \/ records[i].trade = -1
                    \/ records[i].trade = 1 /\ PrevPosition(i) = 1})

\* C3 witness: a finished run whose list holds outcomes of both books.
C3_BothBooksRealized ==
    /\ pc = "done"
    /\ LedgerPrimaryCloses >= 1
    /\ Len(realized_pnls) > LedgerPrimaryCloses
    /\ metrics.total_trades = Len(realized_pnls)

\* today's row, hedge ratio and signal (while pc is in a day)
InDay == pc \in {"books", "exit", "entry", "record"}
Today == df[idx]
HedgeToday == hedge_ratio_col[idx]
SignalToday == signal_col[idx]

\* the primary position's marked equity at today's open, and its return
\* relative to entry_equity as the pair (gain, basis); 0 over 1 when the
\* basis is 0
OpenEquity ==
    BAdd(BAdd(cash, BMulInt(Big(n_etf), Milli(Today.open_etf))),
         BMulInt(BMulInt(Big(n_fut), Milli(entry_fut_price - Today.open_fut)),
                 ContractMultiplier))
OpenReturn ==
    IF entry_equity = BZero THEN [num |-> BZero, den |-> Big(1)]
    ELSE [num |-> BSub(OpenEquity, entry_equity), den |-> entry_equity]

\* OpenReturn >= g, OpenReturn <= -g, for a rate g with g.den > 0
ReturnAtLeast(g) ==
    LET l == BMulInt(OpenReturn.num, g.den)
        r == BMulInt(OpenReturn.den, g.num)
    IN  IF BSign(OpenReturn.den) > 0 THEN BSign(BSub(l, r)) >= 0
        ELSE BSign(BSub(l, r)) <= 0
ReturnAtMostMinus(g) ==
    LET l == BMulInt(OpenReturn.num, g.den)
        r == BMulInt(OpenReturn.den, 0 - g.num)
    IN  IF BSign(OpenReturn.den) > 0 THEN BSign(BSub(l, r)) <= 0
        ELSE BSign(BSub(l, r)) >= 0
ReturnInsideStops ==
    ~ReturnAtLeast(cfg.stop_gain) /\ ~ReturnAtMostMinus(cfg.stop_loss)

\* the alpha book's return at today's open is strictly inside the stops
\* (in the step that handles the books, for a book that is not added to)
AlphaInsideStops ==
    LET now == CombinedValue(cash, base_etf_units + alpha_etf_units,
                             base_fut_units + alpha_fut_units,
                             Today.open_etf, Today.open_fut)
    IN  ~StopHit(RateOf(now, entry_equity_alpha.v), cfg)

\* C4: on a day whose hedge ratio is zero or negative the base book is not
\* built, the alpha book is not added to and the primary position is not
\* opened; an alpha book whose return is strictly inside the stops is kept,
\* and a held primary position whose signal is strictly positive and whose
\* return is strictly inside the stops stays held.
C4_HedgeDisablesEntriesOnly ==
    [][(InDay /\ HedgeToday <= 0) =>
          /\ pc = "books" =>
                /\ base_built' = base_built
                /\ base_etf_units' = base_etf_units
                /\ base_fut_units' = base_fut_units
                /\ alpha_etf_units' <= alpha_etf_units
                /\ alpha_fut_units' <= alpha_fut_units
                /\ ((alpha_etf_units > 0 /\ Truthy(entry_equity_alpha)
                        /\ AlphaInsideStops) =>
                       (/\ alpha_etf_units' = alpha_etf_units
                        /\ alpha_fut_units' = alpha_fut_units))
          /\ (pc = "exit" /\ holding /\ Positive(SignalToday)
                  /\ ReturnInsideStops) =>
                /\ holding'
                /\ UNCHANGED <<cash, capital, n_etf, n_fut, realized_pnls>>
          /\ pc = "entry" => (holding' = holding /\ trade_action' = trade_action)
      ]_vars

\* C4 witness: a position opened on an earlier day is still held after the
\* exit and entry checks of a day whose hedge ratio is negative.
C4_HeldThroughInvalidHedge ==
    /\ pc = "record"
    /\ idx > 1
    /\ HedgeToday < 0
    /\ holding
    /\ trade_action = 0
    /\ Positive(SignalToday)

\* the input never has a strictly positive signal nor a positive hedge ratio
AllFlatInput ==
    \A i \in 1..Len(df) : ~Positive(signal_col[i]) /\ hedge_ratio_col[i] <= 0

\* C5: a finished run on such an input is flat: every record has position
\* flag 0, trade flag 0 and equity initial_capital, no outcome is realized,
\* total_trades is 0, win_rate is nan and annual_return is 0.
C5_AllFlatRun ==
    (pc = "done" /\ AllFlatInput) =>
        /\ Len(records) = Len(df)
        /\ \A i \in 1..Len(records) :
               /\ records[i].position = 0
               /\ records[i].trade = 0
               /\ records[i].equity = InitialCapital(cfg)
        /\ realized_pnls = <<>>
        /\ metrics.total_trades = 0
        /\ metrics.win_rate.isna
        /\ metrics.annual_return = "zero"

\* C5 witness: a finished all-flat run of two days or more.
C5_AllFlatRunDone == pc = "done" /\ AllFlatInput /\ Len(df) >= 2

\* the three-day input of the scenario, at ETF closing price c
Scenario(c) ==
    [i \in 1..3 |-> [pred |-> IF i = 3 THEN -1 ELSE 1, close_etf |-> c,
                     close_fut |-> 100, open_etf |-> 100, open_fut |-> 100]]

\* hedge ratio 2 each day; opened on day 1, held on day 2, closed on day 3;
\* one outcome, whose sign is that of (equity at the close - entry equity) /
\* entry equity
ScenarioOutcome ==
    /\ hedge_ratio_col = <<2, 2, 2>>
    /\ [i \in 1..3 |-> records[i].trade] = <<1, 0, -1>>
    /\ [i \in 1..3 |-> records[i].position] = <<1, 1, 0>>
    /\ Len(realized_pnls) = 1
    /\ RSign(realized_pnls[1]) =
           BSign(BSub(cash, entry_equity)) * BSign(entry_equity)

ScenarioRun(c) == pc = "done" /\ cfg = WideStops(ColPlain) /\ df = Scenario(c)

\* C6 as stated: the scenario with every open and close price at 100.
C6_ScenarioAtPrice100 == ScenarioRun(100) => ScenarioOutcome

\* C6: the scenario with open prices 100 and an ETF close of 1210811, whose
\* hedge ratio is 2: signal [+1, +1, -1], margin_rate 0.1, stops 0.5, the
\* other arguments at their defaults.
C6_ScenarioAtHedgeTwo == ScenarioRun(1210811) => ScenarioOutcome

\* C6 witness: that run, finished.
C6_ScenarioDone == ScenarioRun(1210811)

\* the newest outcome of realized_pnls'
NewestOutcome == realized_pnls'[Len(realized_pnls')]

\* C7: a position held at the start of a day is closed in the exit check
\* exactly when its return at the open is >= stop_gain or <= -stop_loss or
\* the signal is not strictly positive; the close sets cash (and capital) to
\* the marked equity, appends the return and leaves the position flat with
\* trade flag -1; otherwise nothing of the position changes.
C7_ExitIffStopOrSignal ==
    [][(pc = "exit" /\ holding) =>
          LET due == \/ ReturnAtLeast(cfg.stop_gain)
                     \/ ReturnAtMostMinus(cfg.stop_loss)
                     \/ ~Positive(SignalToday)
          IN  /\ due =>
                    /\ ~holding'
                    /\ cash' = OpenEquity
                    /\ capital' = OpenEquity
                    /\ Len(realized_pnls') = Len(realized_pnls) + 1
                    /\ NewestOutcome = OpenReturn
                    /\ n_etf' = 0 /\ n_fut' = 0
                    /\ trade_action' = -1
              /\ ~due =>
                    /\ holding'
                    /\ trade_action' = 0
                    /\ UNCHANGED <<cash, capital, n_etf, n_fut, realized_pnls>>
      ]_vars

\* C7 witness: the exit check has just closed a position whose signal is
\* strictly positive and whose return equals stop_gain exactly.
C7_ClosedExactlyAtStopGain ==
    /\ pc = "entry"
    /\ trade_action = -1
    /\ Positive(SignalToday)
    /\ LET r == realized_pnls[Len(realized_pnls)]
       IN  BMulInt(r.num, cfg.stop_gain.den) = BMulInt(r.den, cfg.stop_gain.num)

\* C8: on an input of zero days the call does not fail and its metrics have
\* annual_return 0 and max_drawdown 0.
C8_EmptyInputHasMetrics ==
    Len(df) = 0 =>
        /\ pc # "error"
        /\ (pc = "done" =>
               (/\ metrics.annual_return = "zero"
                /\ metrics.max_drawdown.kind = "rate"
                /\ RSign(metrics.max_drawdown.rate) = 0))

\* the ETF open, the futures open or the hedge ratio of today is not positive
InvalidPriceDay ==
    Today.open_etf <= 0 \/ Today.open_fut <= 0 \/ HedgeToday <= 0

\* C9: on such a day the base book is not built, the alpha book is not added
\* to and the primary position is not opened; a non-empty input raises no
\* error and the ledger has one record per input day, in input order.
C9_InvalidDaySkipsEntries ==
    /\ [][(InDay /\ InvalidPriceDay) =>
             /\ pc = "books" =>
                   /\ base_built' = base_built
                   /\ base_etf_units' = base_etf_units
                   /\ alpha_etf_units' <= alpha_etf_units
             /\ pc = "entry" => (holding' = holding /\ trade_action' # 1)
         ]_vars
    /\ [](pc = "error" => Len(df) = 0)
    /\ [](pc = "done" =>
             /\ Len(records) = Len(df)
             /\ \A i \in 1..Len(records) : records[i].date = i)

\* the horizon parsed from the prediction column's name
Horizon == PredShift(cfg.pred_col)

\* day i is one of the last Horizon days of the input
InTail(i) == i > Len(df) - Horizon

\* C10: with a horizon of 1 or more, each of the last Horizon days has an
\* absent signal; on a day with an absent signal the base book is not built,
\* the alpha book is not added to, a held primary position is closed and none
\* is opened; so the position flag of each of those days is 0.
C10_AbsentSignalIsNoSignal ==
    /\ []((pc # "prepare" /\ Horizon >= 1) =>
             \A i \in 1..Len(df) : InTail(i) => signal_col[i].isna)
    /\ [][(InDay /\ SignalToday.isna) =>
             /\ pc = "books" =>
                   /\ base_built' = base_built
                   /\ base_etf_units' = base_etf_units
                   /\ alpha_etf_units' <= alpha_etf_units
             /\ pc = "exit" => (~holding' /\ (holding => trade_action' = -1))
             /\ pc = "entry" => (~holding' /\ trade_action' = trade_action)
         ]_vars
    /\ [](Horizon >= 1 =>
             \A i \in 1..Len(records) : InTail(i) => records[i].position = 0)

\* C10 witness: under a horizon of 1, the exit check of the last day has
\* just closed a held position because the signal is absent.
C10_ClosedOnAbsentSignal ==
    /\ pc = "entry"
    /\ Horizon >= 1
    /\ idx = Len(df)
    /\ SignalToday.isna
    /\ trade_action = -1
    /\ ~holding

\* the number of days whose base-book check has been made
BooksDone == IF pc = "prepare" THEN 0 ELSE IF pc = "books" THEN idx - 1 ELSE idx

\* day i has signal > 0, hedge ratio > 0 and open_etf > 0
Buildable(i) ==
    Positive(signal_col[i]) /\ hedge_ratio_col[i] > 0 /\ df[i].open_etf > 0

\* day i is the first such day
FirstBuildable(i) == Buildable(i) /\ \A j \in 1..(i - 1) : ~Buildable(j)

\* C11: the base book is built on the first day with signal > 0, hedge ratio
\* > 0 and open_etf > 0, with 1000 ETF units and 1000 x that day's hedge ratio
\* futures lots, and not before; once built, no step changes its units, its
\* lots or its built flag.
C11_BaseBuiltOnce ==
    /\ [](pc # "prepare" =>
            /\ base_built = (\E i \in 1..Min(BooksDone, Len(df)) : Buildable(i))
            /\ ~base_built => (base_etf_units = 0 /\ base_fut_units = 0)
            /\ \A i \in 1..Min(BooksDone, Len(df)) :
                   FirstBuildable(i) =>
                       /\ base_etf_units = 1000
                       /\ base_fut_units = 1000 * hedge_ratio_col[i])
    /\ [][base_built =>
             UNCHANGED <<base_built, base_etf_units, base_fut_units>>]_vars

\* C11 witness: a finished run whose base book was built at hedge ratio 1
\* and which later had a day with signal > 0, open_etf > 0 and hedge ratio 2.
C11_BuiltBeforeOtherRatio ==
    /\ pc = "done"
    /\ base_built
    /\ base_fut_units = 1000
    /\ \E i \in 1..Len(df) : Buildable(i) /\ hedge_ratio_col[i] = 2

\* rint(close_etf * 7.5 * 0.0001 / ((0.042 / 0.925) * 10000)), which is
\* rint(close_etf * 111 / 67200000), for the closes of the inputs
RatioOfClose(close_etf) ==
    CASE close_etf = -1210811 -> -2
      [] close_etf = 100 -> 0
      [] close_etf = 605405 -> 1
      [] close_etf = 1210811 -> 2

\* C12: under the default duration, CTD DV01 and conversion factor the hedge
\* ratio of a day is the value its own close_etf determines, so two days
\* with the same close_etf have the same ratio whatever their close_fut,
\* their place in the series and the other days; and no step changes the
\* input rows.
C12_HedgeRatioOfCloseOnly ==
    /\ [](pc # "prepare" =>
            /\ Len(hedge_ratio_col) = Len(df)
            /\ \A i \in 1..Len(df) :
                   hedge_ratio_col[i] = RatioOfClose(df[i].close_etf)
            /\ \A i, j \in 1..Len(df) :
                   df[i].close_etf = df[j].close_etf =>
                       hedge_ratio_col[i] = hedge_ratio_col[j])
    /\ [][df' = df /\ (pc # "prepare" => hedge_ratio_col' = hedge_ratio_col)]_vars

\* C12 witness: two days of one finished run with the same close_etf and
\* different close_fut, after a day with another close_etf.
C12_SameCloseOtherFutures ==
    /\ pc = "done"
    /\ \E i, j \in 2..Len(df) :
           /\ i < j
           /\ df[i].close_etf = df[j].close_etf
           /\ df[i].close_fut # df[j].close_fut
           /\ df[1].close_etf # df[i].close_etf
           /\ hedge_ratio_col[i] = 1

\* the entry check of today opens the primary position
OpensPrimary == pc = "entry" /\ ~holding /\ holding'

\* (lots x margin_rate x open_fut x 10000 + shares x open_etf) <= 0.9 x cap,
\* both sides multiplied by 10 x margin_rate.den
WithinReserve(shares, lots, cap) ==
    LET m == cfg.margin_rate
        margin == BMulInt(BMulInt(BMulInt(Big(lots), m.num), Milli(Today.open_fut)),
                          ContractMultiplier)
        notional == BMulInt(BMulInt(Big(shares), Milli(Today.open_etf)), m.den)
    IN  BLe(BMulInt(BAdd(margin, notional), 10), BMulInt(cap, 9 * m.den))

\* C13: an entry check that opens the primary position leaves at least one
\* share and one lot whose margin plus notional is at most 90% of the capital
\* held before it; an entry check that is attempted and sizes no share
\* leaves cash, capital, entry equity and the holding flag unchanged.
C13_SizingWithinReserve ==
    [][/\ OpensPrimary =>
             /\ n_etf' >= 1
             /\ n_fut' >= 1
             /\ WithinReserve(n_etf', n_fut', capital)
       /\ (pc = "entry" /\ TriesEntry(holding, SignalToday)
              /\ ~SkipsEntry(Today.open_etf, HedgeToday) /\ n_etf' <= 0) =>
             UNCHANGED <<cash, capital, entry_equity, holding>>
      ]_vars

\* C18: at the end of a day on which the primary position is flat, its share
\* count and its lot count are both 0.
C18_FlatHasNoCounts ==
    (pc = "record" /\ ~holding) => (n_etf = 0 /\ n_fut = 0)

\* C14: while the primary position is flat capital equals cash, and while
\* it is held capital equals the entry equity recorded at its entry; in
\* every state, so at the end of every day.
C14_CapitalTracksBasis ==
    /\ ~holding => capital = cash
    /\ holding => capital = entry_equity

\* C14 witness: the end of a day that closed a position at a gain or a loss
\* and did not re-open it.
C14_FlatAfterClose ==
    /\ pc = "record"
    /\ ~holding
    /\ trade_action = -1
    /\ cash # InitialCapital(cfg)
    /\ RSign(realized_pnls[Len(realized_pnls)]) # 0

\* cash + units x open_etf + (entry_fut_price - open_fut) x lots x 10000 at
\* the open prices of day d
MarkOn(units, lots, d) ==
    BAdd(cash,
         BAdd(BMulInt(Big(units), 1000 * df[d].open_etf),
              BMulInt(BMulInt(Big(lots), 1000 * (entry_fut_price - df[d].open_fut)),
                      10000)))

\* the equity of the claim for day d: cash when flat, the base+alpha book's
\* mark when held
BookEquity(d) ==
    IF holding
    THEN MarkOn(base_etf_units + alpha_etf_units, base_fut_units + alpha_fut_units, d)
    ELSE cash

\* C15: the step that records a day comes after its exit and entry checks and
\* appends one record whose position flag is 1 exactly when the position is
\* held, whose trade flag is the day's trade action, whose equity is cash
\* when flat and cash + (base + alpha units) x open_etf + (entry futures
\* price - open_fut) x (base + alpha lots) x 10000 when held, and whose
\* cumulative return is equity / initial_capital - 1.
C15_RecordMarksBooks ==
    [][pc = "record" =>
          /\ Len(records') = Len(records) + 1
          /\ LET rec == records'[Len(records')]
             IN  /\ rec.date = idx
                 /\ rec.position = (IF holding THEN 1 ELSE 0)
                 /\ rec.trade = trade_action
                 /\ rec.equity = BookEquity(idx)
                 /\ rec.cum_return.den = InitialCapital(cfg)
                 /\ rec.cum_return.num = BSub(BookEquity(idx), InitialCapital(cfg))
          /\ UNCHANGED <<cash, holding, n_etf, n_fut, entry_fut_price, bookVars>>
      ]_vars

\* C15 witness: a day has just been recorded as held, at a futures open other
\* than the entry price, and its equity is the books' mark and differs from
\* the mark on the position's own counts.
C15_HeldDayMarkedOnBooks ==
    /\ pc \in {"books", "metrics"}
    /\ Len(records) >= 1
    /\ holding
    /\ LET d == Len(records)
       IN  /\ entry_fut_price # df[d].open_fut
           /\ records[d].position = 1
           /\ records[d].equity = BookEquity(d)
           /\ records[d].equity # MarkOn(n_etf, n_fut, d)

\* shares x open_etf of today, and the slippage of an entry of today:
\* 3 x tick_etf x shares + tick_fut x 10000 x lots
NotionalToday(shares) == BMulInt(Big(shares), 1000 * Today.open_etf)
SlippageOf(shares, lots) ==
    BAdd(BMulInt(Big(shares), 3 * cfg.tick_etf),
         BMulInt(Big(lots), cfg.tick_fut * 10000))

\* today's open prices are those of the position's entry
AtEntryPrices ==
    Today.open_etf = entry_etf_price /\ Today.open_fut = entry_fut_price

\* C16: an entry lowers cash by the ETF notional plus the slippage of its
\* shares and lots and records entry equity = the new cash + shares x open_etf,
\* which is the old cash minus the slippage; a close at the open prices of the
\* entry appends a return of exactly 0 and leaves cash equal to that entry
\* equity.
C16_EntryDebitAndFlatRoundTrip ==
    [][/\ OpensPrimary =>
             /\ cash' = BSub(cash, BAdd(NotionalToday(n_etf'), SlippageOf(n_etf', n_fut')))
             /\ entry_equity' = BAdd(cash', NotionalToday(n_etf'))
             /\ entry_equity' = BSub(cash, SlippageOf(n_etf', n_fut'))
             /\ entry_etf_price' = Today.open_etf
             /\ entry_fut_price' = Today.open_fut
       /\ (pc = "exit" /\ holding /\ ~holding' /\ AtEntryPrices) =>
             /\ Len(realized_pnls') = Len(realized_pnls) + 1
             /\ NewestOutcome.num = BZero
             /\ NewestOutcome.den # BZero
             /\ cash' = entry_equity
      ]_vars

\* C16 witness: a position held through a day with another futures open has
\* just been closed at the open prices of its entry.
C16_ClosedAtEntryPrices ==
    /\ pc = "entry"
    /\ trade_action = -1
    /\ idx >= 3
    /\ AtEntryPrices
    /\ records[idx - 1].position = 1
    /\ records[idx - 1].trade = 0
    /\ df[idx - 1].open_fut # Today.open_fut
    /\ RSign(realized_pnls[Len(realized_pnls)]) = 0

\* the books step of today closes the alpha book
ClosesAlpha == pc = "books" /\ alpha_etf_units > 0 /\ alpha_etf_units' = 0

\* cash + (base + alpha units) x open_etf - (base + alpha lots) x open_fut x
\* 10000 at today's open, minus the entry-equity basis of the alpha book
AlphaValueChange ==
    LET units == base_etf_units + alpha_etf_units
        lots == base_fut_units + alpha_fut_units
        value == BSub(BAdd(cash, BMulInt(Big(units), 1000 * Today.open_etf)),
                      BMulInt(BMulInt(Big(lots), 1000 * Today.open_fut), 10000))
    IN  BSub(value, entry_equity_alpha.v)

\* C17: a step that closes the alpha book appends one outcome, which is
\* positive only if the combined value is strictly above the entry-equity
\* basis and negative only if it is strictly below.
C17_AlphaOutcomeHasSignOfChange ==
    [][ClosesAlpha =>
          /\ Len(realized_pnls') = Len(realized_pnls) + 1
          /\ RSign(NewestOutcome) > 0 => BSign(AlphaValueChange) > 0
          /\ RSign(NewestOutcome) < 0 => BSign(AlphaValueChange) < 0
      ]_vars

\* the exit check of today closes the primary position
ClosesPrimaryPosition == pc = "exit" /\ holding /\ ~holding'

\* C19: only a step that opens or closes the primary position changes cash
\* or capital; the step of the base and alpha books (build, increment, close
\* of the alpha book) and the record step leave both unchanged, so a day with
\* no primary entry and no primary exit ends with the cash it started with.
C19_CashMovesWithPrimaryOnly ==
    [][/\ (cash' # cash \/ capital' # capital) =>
             (OpensPrimary \/ ClosesPrimaryPosition)
       /\ pc \in {"books", "record"} => UNCHANGED <<cash, capital>>
      ]_vars

\* C19 witness: the end of a day with no primary trade, flat like the day
\* before it, on which the alpha book was added to: cash is the equity
\* recorded the day before.
C19_AlphaAddedCashKept ==
    /\ pc = "record"
    /\ idx >= 2
    /\ ~holding
    /\ trade_action = 0
    /\ records[idx - 1].position = 0
    /\ cash = records[idx - 1].equity
    /\ BelowThreshold(SignalToday, cfg.alpha_entry_threshold)
    /\ HedgeToday > 0
    /\ alpha_etf_units >= 200
    /\ ~entry_equity_alpha.none

\* C20: at the end of a day on which the primary position is held, and in
\* every record with position flag 1, the day's signal is strictly positive
\* and the base book is built; the position is never opened while the base
\* book is unbuilt.
C20_HeldOnlyOnPositiveSignal ==
    /\ []((pc = "record" /\ holding) => (Positive(SignalToday) /\ base_built))
    /\ [](\A i \in 1..Len(records) :
              records[i].position = 1 => (Positive(signal_col[i]) /\ base_built))
    /\ [][OpensPrimary => base_built]_vars

\* C20 witness: the end of a day through which a position opened earlier
\* was held, after a day whose signal was not positive.
C20_HeldThroughPositiveDay ==
    /\ pc = "record"
    /\ holding
    /\ trade_action = 0
    /\ idx >= 3
    /\ \E i \in 1..(idx - 1) : ~Positive(signal_col[i])

====
